---- MODULE Spec2Model ----
(***************************************************************************)
(* The cube engine of src/game.js (class RubiksCube and the session state  *)
(* object `state`) as a state machine.                                     *)
(*                                                                         *)
(* Lengths are kept doubled: a cubie's render position p (in units of      *)
(* this.cubeSize, which is 1 for every size <= 10) is stored as the        *)
(* integer 2*p, so that the half-integer positions of even sizes are       *)
(* exact.  rotate is an async function: everything up to its `await` and   *)
(* everything after it runs without interleaving, so one action models     *)
(* each of the two halves.                                                 *)
(***************************************************************************)
EXTENDS Integers, Sequences, FiniteSets, TLC

\* Bounds of the model.
MaxCalls == 3
MaxScramble == 2
MaxTurns == 4
MaxDrags == 2
MaxKeys == 2
MaxSpins == 6

\* The sizes a run may be constructed with.  The session runs leave out the
\* even size, whose turns depend on the engine's rounding.
Sizes == {1, 2, 3}
SessionSizes == {1, 3}

Axes == {"x", "y", "z"}
Directions == {1, -1}
FaceIndices == 0 .. 5

NoTurn == [none |-> TRUE]
NoCommand == [axis |-> "none", layer |-> 0, direction |-> 0]
NoFace == [none |-> TRUE]
NoPoint == [none |-> TRUE]
NoDrag == [isDragging |-> FALSE, dragStart |-> NoPoint, selectedFace |-> NoFace]
NoMeta == [ticket |-> 0, origin |-> "none", animate |-> FALSE, cmd |-> NoCommand,
           solvedAtBegin |-> FALSE, timerAtBegin |-> FALSE]

(***************************************************************************)
(* Pieces                                                                  *)
(***************************************************************************)

\* A cubie's quaternion, by its action on the six face normals: local face
\* index -> world direction index (0:+X 1:-X 2:+Y 3:-Y 4:+Z 5:-Z).
IdentityQuaternion == [i \in FaceIndices |-> i]

\* The colour of local face faceIndex of the piece created at orig.
FaceMaterial(orig, N, faceIndex) ==
    CASE faceIndex = 0 -> IF orig[1] = N - 1 THEN "red" ELSE "black"
      [] faceIndex = 1 -> IF orig[1] = 0 THEN "orange" ELSE "black"
      [] faceIndex = 2 -> IF orig[2] = N - 1 THEN "white" ELSE "black"
      [] faceIndex = 3 -> IF orig[2] = 0 THEN "yellow" ELSE "black"
      [] faceIndex = 4 -> IF orig[3] = N - 1 THEN "blue" ELSE "black"
      [] OTHER -> IF orig[3] = 0 THEN "green" ELSE "black"

CreateCubie(x, y, z, N) ==
    [userData |-> [x |-> x, y |-> y, z |-> z],
     position |-> [x |-> 2 * x - (N - 1), y |-> 2 * y - (N - 1), z |-> 2 * z - (N - 1)],
     quaternion |-> IdentityQuaternion]

\* Mutant of SurfaceTriples: the test for a surface cubie left out.
SurfaceTriples_All(N) == (0 .. N - 1) \X (0 .. N - 1) \X (0 .. N - 1)

\* The triples createCube makes a cubie for; a piece is named by its triple.
SurfaceTriples(N) ==
    {t \in (0 .. N - 1) \X (0 .. N - 1) \X (0 .. N - 1) :
        \E i \in 1 .. 3 : t[i] = 0 \/ t[i] = N - 1}

CreateCube(N) ==
    [t \in SurfaceTriples(N) |-> CreateCubie(t[1], t[2], t[3], N)]

(***************************************************************************)
(* Layer selection and the quarter turn                                    *)
(***************************************************************************)

\* |pos - layerPos| < 0.01 on positions that are exact multiples of 1/2; an
\* axis that is none of the three cases selects nothing ("return false").
GetCubiesInLayer(cs, N, axis, layer) ==
    {t \in DOMAIN cs : axis \in Axes /\ cs[t].position[axis] = 2 * layer - (N - 1)}

\* The world position (doubled) of a cubie at p inside the rotation group
\* turned by direction * 90 degrees about axis.
WorldPosition(p, axis, direction) ==
    CASE axis = "x" -> [x |-> p.x, y |-> -direction * p.z, z |-> direction * p.y]
      [] axis = "y" -> [x |-> direction * p.z, y |-> p.y, z |-> -direction * p.x]
      [] OTHER -> [x |-> -direction * p.y, y |-> direction * p.x, z |-> p.z]

\* Math.round of the exact value w2/2: halves go up.
MathRound(w2) == (w2 + 1) \div 2

\* The in-plane coordinates of the turned cubies that the rotation leaves
\* within rounding error of a half-integer: Math.round takes such a value to
\* either neighbour, depending on the sign of the error.
InexactHalves(cs, sel, axis, direction) ==
    {<<t, a>> \in sel \X (Axes \ {axis}) :
        WorldPosition(cs[t].position, axis, direction)[a] % 2 = 1}

Sgn(v) == IF v > 0 THEN 1 ELSE IF v < 0 THEN -1 ELSE 0

\* What the rotation group's matrix is for a quarter turn depends on the
\* engine's Math.sin and Math.cos of pi/4, each of which is one of the two
\* doubles next to 1/sqrt(2).  Quaternion.setFromEuler and Matrix4.compose
\* make the in-plane block of the matrix from s = sin and c = cos as
\* 1 - 2*s*s (ideally 0) on the diagonal and 2*c*s (ideally 1) off it:
\* e is the sign of the first, m the sign of 2*c*s - 1; where both are not
\* zero they have the same magnitude, 2^-52.
Builds ==
    {[e |-> 1, m |-> -1],   \* sin and cos both below 1/sqrt(2)
     [e |-> 1, m |-> 0],    \* sin below, cos above
     [e |-> -1, m |-> 0],   \* sin above, cos below
     [e |-> -1, m |-> 1]}   \* both above

\* The sign of the error of coordinate a of the world position of a cubie
\* at +-1/2 in the plane of the turn: the coordinate is computed as
\* (1 - 2*s*s) * p[a] + 2*c*s * ideal[a].
Deviation(b, p, axis, direction, a) ==
    Sgn(b.e * Sgn(p[a]) + b.m * Sgn(WorldPosition(p, axis, direction)[a]))

\* For each build, whether Math.round takes each inexact half up (1) or down
\* (0); a coordinate that comes out as the half exactly goes up.
RoundingChoices(cs, sel, axis, direction) ==
    {[h \in InexactHalves(cs, sel, axis, direction) |->
         IF Deviation(b, cs[h[1]].position, axis, direction, h[2]) >= 0
         THEN 1 ELSE 0] : b \in Builds}

\* Mutant of UpdateCubiePosition: the position rounded, userData not updated.
UpdateCubiePosition_KeepsUserData(cubie, t, N, axis, direction, r) ==
    LET w == WorldPosition(cubie.position, axis, direction)
        rounded == [a \in Axes |->
                       IF a = axis \/ w[a] % 2 = 0
                       THEN MathRound(w[a])
                       ELSE (w[a] - 1) \div 2 + r[<<t, a>>]]
    IN  [cubie EXCEPT !.position = [a \in Axes |-> 2 * rounded[a]]]

\* position <- Math.round(position); userData <- Math.round(position + offset).
UpdateCubiePosition(cubie, t, N, axis, direction, r) ==
    LET w == WorldPosition(cubie.position, axis, direction)
        rounded == [a \in Axes |->
                       IF a = axis \/ w[a] % 2 = 0
                       THEN MathRound(w[a])
                       ELSE (w[a] - 1) \div 2 + r[<<t, a>>]]
    IN  [cubie EXCEPT !.position = [a \in Axes |-> 2 * rounded[a]],
                      !.userData = [a \in Axes |-> MathRound(2 * rounded[a] + (N - 1))]]

(***************************************************************************)
(* The solved check                                                        *)
(***************************************************************************)

\* Mutant of GetFaceColor: the material of the +X face, whatever the face asked for.
GetFaceColor_FirstMaterial(cubie, t, N, faceIndex) ==
    FaceMaterial(t, N, cubie.quaternion[0])

\* The world normal of local face faceIndex is quaternion[faceIndex]; the
\* direction of the list with the largest dot product is that direction
\* itself, and its index picks the material.
GetFaceColor(cubie, t, N, faceIndex) ==
    FaceMaterial(t, N, cubie.quaternion[faceIndex])

FaceColors(cs, N, faceIndex) ==
    LET a == CASE faceIndex \in {0, 1} -> "x"
               [] faceIndex \in {2, 3} -> "y"
               [] OTHER -> "z"
        edge == IF faceIndex \in {0, 2, 4} THEN N - 1 ELSE 0
    IN  {GetFaceColor(cs[t], t, N, faceIndex) :
            t \in {u \in DOMAIN cs : cs[u].userData[a] = edge}}

IsSolved(cs, N) ==
    \A faceIndex \in FaceIndices : Cardinality(FaceColors(cs, N, faceIndex)) <= 1

(***************************************************************************)
(* State                                                                   *)
(***************************************************************************)

VARIABLES
    size,            \* RubiksCube.size
    cubies,          \* RubiksCube.cubies: piece -> [userData, position, quaternion]
    isAnimating,     \* state.isAnimating
    moveQueue,       \* state.moveQueue: sequence of [axis, layer, direction]
    moves,           \* state.moves
    isTimerRunning,  \* state.isTimerRunning
    isSolved,        \* state.isSolved
    modalShown,      \* the solved modal is visible
    turn,            \* the suspended rotate call: its arguments and cubiesInLayer
    calls,           \* history: rotate calls made so far, each numbered on entry
    done,            \* history: rotate calls that ran to completion
    queueMeta,       \* history: number, origin and animate argument of each queued call
    turnMeta,        \* history: the same for the call in progress
    lastBegun,       \* history: the call that most recently passed the isAnimating test
    sinceZero,       \* history: player calls begun since the last scramble or reset
    scrambled,       \* history: scramble was called and reset was not called since
    lastOp,          \* history: the operation of the last step, and the face and
                     \* drag of the command a pointer move issued
    trail,           \* history: each completed turn of a layer run, and the pieces before it
    drag,            \* state.isDragging, state.dragStart, state.selectedFace
    issued,          \* history: the key or the dragged piece behind each call of a handler
    sincePress       \* history: rotate calls made by onMouseMove since the last press on a piece

vars == <<size, cubies, isAnimating, moveQueue, moves, isTimerRunning, isSolved,
          modalShown, turn, calls, done, queueMeta, turnMeta, lastBegun,
          sinceZero, scrambled, lastOp, trail, drag, issued, sincePress>>

input == <<drag, issued, sincePress>>

\* The current state as one record, and the step to a record.
Now ==
    [size |-> size, cubies |-> cubies, isAnimating |-> isAnimating,
     moveQueue |-> moveQueue, moves |-> moves, isTimerRunning |-> isTimerRunning,
     isSolved |-> isSolved, modalShown |-> modalShown, turn |-> turn,
     calls |-> calls, done |-> done, queueMeta |-> queueMeta,
     turnMeta |-> turnMeta, lastBegun |-> lastBegun, sinceZero |-> sinceZero,
     scrambled |-> scrambled]

Becomes(s) ==
    /\ size' = s.size
    /\ cubies' = s.cubies
    /\ isAnimating' = s.isAnimating
    /\ moveQueue' = s.moveQueue
    /\ moves' = s.moves
    /\ isTimerRunning' = s.isTimerRunning
    /\ isSolved' = s.isSolved
    /\ modalShown' = s.modalShown
    /\ turn' = s.turn
    /\ calls' = s.calls
    /\ done' = s.done
    /\ queueMeta' = s.queueMeta
    /\ turnMeta' = s.turnMeta
    /\ lastBegun' = s.lastBegun
    /\ sinceZero' = s.sinceZero
    /\ scrambled' = s.scrambled

Commands(N) == [axis : Axes, layer : 0 .. N - 1, direction : Directions]

\* The commands the session runs draw from: the keys U, Shift+U and R.
SessionCommands(N) ==
    {[axis |-> "y", layer |-> N - 1, direction |-> 1],
     [axis |-> "y", layer |-> N - 1, direction |-> -1],
     [axis |-> "x", layer |-> N - 1, direction |-> 1]}

\* Arguments rotate has no layer for: an axis that is not x, y or z, and
\* layer indices just outside [0, N-1].
InvalidCommands(N) ==
    {[axis |-> "w", layer |-> 0, direction |-> 1],
     [axis |-> "x", layer |-> N, direction |-> 1],
     [axis |-> "y", layer |-> -1, direction |-> -1]}

(***************************************************************************)
(* Timer                                                                   *)
(***************************************************************************)

StartTimer(s) == [s EXCEPT !.isTimerRunning = TRUE]

StopTimer(s) == [s EXCEPT !.isTimerRunning = FALSE]

ResetTimer(s) == StopTimer(s)

ShowSolvedModal(s) == [s EXCEPT !.modalShown = TRUE]

(***************************************************************************)
(* rotate                                                                  *)
(***************************************************************************)

\* Mutant of Enqueue: unshift in place of push.
Enqueue_AtHead(q, c) ==
    <<[axis |-> c.axis, layer |-> c.layer, direction |-> c.direction]>> \o q

\* state.moveQueue.push({ axis, layer, direction })
Enqueue(q, c) == Append(q, [axis |-> c.axis, layer |-> c.layer, direction |-> c.direction])

\* Mutant of Dequeue: pop in place of shift.
Dequeue_Newest(q) == [next |-> q[Len(q)], rest |-> SubSeq(q, 1, Len(q) - 1)]

\* state.moveQueue.shift(): the command taken and the queue left.
Dequeue(q) == [next |-> Head(q), rest |-> Tail(q)]

\* "Start timer on first move".
StartOnFirstMove(s) ==
    IF ~s.isTimerRunning /\ s.isSolved
    THEN [StartTimer(s) EXCEPT !.isSolved = FALSE]
    ELSE s

\* rotate from the isAnimating test it passed up to the await: the flag, the
\* timer, the counter, and the layer's cubies taken into the rotation group.
BeginTurn(s, c) ==
    LET t == StartOnFirstMove([s EXCEPT !.isAnimating = TRUE])
    IN  [t EXCEPT !.moves = @ + 1,
                  !.turn = [axis |-> c.axis, layer |-> c.layer,
                            direction |-> c.direction,
                            cubiesInLayer |->
                                GetCubiesInLayer(s.cubies, s.size, c.axis, c.layer),
                            discarded |-> FALSE]]

\* Mutant of MoveBack: the loop stops after the first cubie of the layer.
MoveBack_OnlyFirst(s, r) ==
    [s EXCEPT !.cubies =
                  IF s.turn.discarded \/ s.turn.cubiesInLayer = {}
                  THEN @
                  ELSE LET first == CHOOSE t \in s.turn.cubiesInLayer : TRUE
                       IN  [@ EXCEPT ![first] =
                               UpdateCubiePosition(@, first, s.size, s.turn.axis,
                                                   s.turn.direction, r)],
              !.isAnimating = FALSE,
              !.turn = NoTurn]

\* "Move cubies back to main group": every cubie of the layer gets its world
\* position and its logical position.  Cubies that reset() has dropped from
\* this.cubies since are updated too, but are no part of the puzzle any more.
MoveBack(s, r) ==
    [s EXCEPT !.cubies =
                  IF s.turn.discarded
                  THEN @
                  ELSE [t \in DOMAIN @ |->
                           IF t \in s.turn.cubiesInLayer
                           THEN UpdateCubiePosition(@[t], t, s.size, s.turn.axis,
                                                    s.turn.direction, r)
                           ELSE @[t]],
              !.isAnimating = FALSE,
              !.turn = NoTurn]

\* Mutant of CheckSolved: the check left out.
CheckSolved_Never(s) == s

\* "Check if solved".
CheckSolved(s) ==
    IF IsSolved(s.cubies, s.size)
    THEN ShowSolvedModal(StopTimer([s EXCEPT !.isSolved = TRUE]))
    ELSE s

\* History of a call that begins: its number, and the flags it found.
NoteBegin(before, after, m) ==
    LET b == [m EXCEPT !.solvedAtBegin = before.isSolved,
                       !.timerAtBegin = before.isTimerRunning]
    IN  [after EXCEPT !.turnMeta = b,
                      !.lastBegun = b,
                      !.sinceZero = IF m.origin = "player" THEN @ + 1 ELSE @]

\* Mutant of ProcessQueue: the queue is not looked at when a turn ends.
ProcessQueue_Never(s) == s

\* "Process queue": rotate(next.axis, next.layer, next.direction), whose
\* animate parameter takes its default, true, and which therefore suspends.
ProcessQueue(s) ==
    IF Len(s.moveQueue) > 0
    THEN LET d == Dequeue(s.moveQueue)
             t == [s EXCEPT !.moveQueue = d.rest, !.queueMeta = Tail(@)]
         IN  NoteBegin(t, BeginTurn(t, d.next), Head(s.queueMeta))
    ELSE s

\* The possible states when a suspended or synchronous turn runs from the
\* end of its rotation to the end of rotate.
Completions(s) ==
    {ProcessQueue(CheckSolved([MoveBack(s, r) EXCEPT !.done = @ + 1,
                                                     !.turnMeta = NoMeta])) :
        r \in RoundingChoices(s.cubies,
                              IF s.turn.discarded THEN {} ELSE s.turn.cubiesInLayer,
                              s.turn.axis, s.turn.direction)}

\* Mutant of Rotate: the isAnimating test left out.
Rotate_NoGuard(s, c, animate, origin) ==
    LET m == [NoMeta EXCEPT !.ticket = s.calls + 1, !.origin = origin,
                            !.animate = animate, !.cmd = c]
        n == [s EXCEPT !.calls = @ + 1]
        b == NoteBegin(n, BeginTurn(n, c), m)
    IN  IF animate THEN {b} ELSE Completions(b)

\* Mutant of Rotate: the counter goes up when the call is queued.
Rotate_CountsWhenQueued(s, c, animate, origin) ==
    LET m == [NoMeta EXCEPT !.ticket = s.calls + 1, !.origin = origin,
                            !.animate = animate, !.cmd = c]
        n == [s EXCEPT !.calls = @ + 1]
    IN  IF s.isAnimating
        THEN {[n EXCEPT !.moveQueue = Enqueue(@, c), !.queueMeta = Append(@, m),
                        !.moves = @ + 1]}
        ELSE LET b == NoteBegin(n, BeginTurn(n, c), m)
             IN  IF animate THEN {b} ELSE Completions(b)

\* rotate(axis, layer, direction, animate), called by origin.
Rotate(s, c, animate, origin) ==
    LET m == [NoMeta EXCEPT !.ticket = s.calls + 1, !.origin = origin,
                            !.animate = animate, !.cmd = c]
        n == [s EXCEPT !.calls = @ + 1]
    IN  IF s.isAnimating
        THEN {[n EXCEPT !.moveQueue = Enqueue(@, c), !.queueMeta = Append(@, m)]}
        ELSE LET b == NoteBegin(n, BeginTurn(n, c), m)
             IN  IF animate THEN {b} ELSE Completions(b)

(***************************************************************************)
(* scramble and reset                                                      *)
(***************************************************************************)

RECURSIVE ScrambleCalls(_, _)
ScrambleCalls(S, cs) ==
    IF cs = <<>>
    THEN S
    ELSE ScrambleCalls(UNION {Rotate(s, Head(cs), FALSE, "scramble") : s \in S},
                       Tail(cs))

\* scramble(moves) with the random draws cs: the rotate calls, then the flag
\* and the counter.
Scramble(s, cs) ==
    {[t EXCEPT !.isSolved = FALSE, !.moves = 0, !.sinceZero = 0, !.scrambled = TRUE] :
        t \in ScrambleCalls({s}, cs)}

\* Mutant of Reset: the session fields reset, the cubies kept.
Reset_KeepsCubies(s) ==
    [s EXCEPT !.isSolved = TRUE, !.moves = 0, !.sinceZero = 0,
              !.scrambled = FALSE, !.isTimerRunning = FALSE]

\* reset(): new cubies in this.cubies; a suspended turn keeps the old ones.
Reset(s) ==
    LET t == [s EXCEPT !.cubies = CreateCube(s.size),
                       !.turn = IF @ = NoTurn THEN @ ELSE [@ EXCEPT !.discarded = TRUE],
                       !.isSolved = TRUE,
                       !.moves = 0,
                       !.sinceZero = 0,
                       !.scrambled = FALSE]
    IN  ResetTimer(t)

(***************************************************************************)
(* The state machine                                                       *)
(***************************************************************************)

InitSized(S) ==
    /\ size \in S
    /\ cubies = CreateCube(size)
    /\ isAnimating = FALSE
    /\ moveQueue = <<>>
    /\ moves = 0
    /\ isTimerRunning = FALSE
    /\ isSolved = TRUE
    /\ modalShown = FALSE
    /\ turn = NoTurn
    /\ calls = 0
    /\ done = 0
    /\ queueMeta = <<>>
    /\ turnMeta = NoMeta
    /\ lastBegun = NoMeta
    /\ sinceZero = 0
    /\ scrambled = FALSE
    /\ lastOp = [op |-> "init", solvedBefore |-> TRUE]
    /\ trail = <<>>
    /\ drag = NoDrag
    /\ issued = <<>>
    /\ sincePress = 0

Init == InitSized(SessionSizes)

Op(name) == [op |-> name, solvedBefore |-> IsSolved(cubies, size)]

\* A key press or a drag: rotate(axis, layer, direction, animate).
RotateCall ==
    /\ calls < MaxCalls
    /\ \E c \in SessionCommands(size), animate \in BOOLEAN :
          \E s \in Rotate(Now, c, animate, "player") : Becomes(s)
    /\ lastOp' = Op("rotate")
    /\ UNCHANGED <<trail, input>>

\* The animation's last frame resolves the promise rotate awaits.
AnimationComplete ==
    /\ turn # NoTurn
    /\ \E s \in Completions(Now) : Becomes(s)
    /\ lastOp' = Op("complete")
    /\ UNCHANGED <<trail, input>>

\* The scramble button.  The count is the one scramble(moves) is given; the
\* buttons leave it to the default max(20, 5 * size), which MaxScramble stands for.
ScrambleCall ==
    /\ \E n \in 0 .. MaxScramble :
          /\ calls + n <= MaxCalls
          /\ \E cs \in [1 .. n -> SessionCommands(size)] :
                \E s \in Scramble(Now, cs) : Becomes(s)
    /\ lastOp' = Op("scramble")
    /\ UNCHANGED <<trail, input>>

\* The play-again button of the solved modal: hide it, then scramble.
PlayAgain ==
    /\ modalShown
    /\ \E n \in 0 .. MaxScramble :
          /\ calls + n <= MaxCalls
          /\ \E cs \in [1 .. n -> SessionCommands(size)] :
                \E s \in Scramble([Now EXCEPT !.modalShown = FALSE], cs) : Becomes(s)
    /\ lastOp' = Op("scramble")
    /\ UNCHANGED <<trail, input>>

ResetCall ==
    /\ Becomes(Reset(Now))
    /\ lastOp' = Op("reset")
    /\ UNCHANGED <<trail, input>>

Next ==
    \/ RotateCall
    \/ AnimationComplete
    \/ ScrambleCall
    \/ PlayAgain
    \/ ResetCall

Spec == Init /\ [][Next]_vars

\* The step in which a suspended rotate call resumes and runs to its end; of
\* the steps of Next only those of AnimationComplete are such steps.
TurnCompletes == turn # NoTurn /\ done' = done + 1

\* requestAnimationFrame keeps calling animateStep, so that the promise of a
\* turn in progress is resolved after its 200 ms.
SpecLive == Init /\ [][Next]_vars /\ WF_done(TurnCompletes)

(***************************************************************************)
(* Layer runs: non-animated rotate calls that keep turning the layer the   *)
(* first call chose, in either direction, on a cube of any size.           *)
(***************************************************************************)

\* gridPosition and orientation of every piece.
Pieces(cs) == [t \in DOMAIN cs |-> [gridPosition |-> cs[t].userData,
                                     orientation |-> cs[t].quaternion]]

RotateLayer ==
    /\ calls < MaxTurns
    /\ \E c \in Commands(size) :
          /\ trail # <<>> =>
                 /\ c.axis = trail[1].cmd.axis
                 /\ c.layer = trail[1].cmd.layer
          /\ \E s \in Rotate(Now, c, FALSE, "player") : Becomes(s)
          /\ trail' = Append(trail, [cmd |-> c, before |-> Pieces(cubies)])
    /\ lastOp' = Op("rotate")
    /\ UNCHANGED input

InitTurns == InitSized(Sizes)

NextTurns == RotateLayer

SpecTurns == InitTurns /\ [][NextTurns]_vars

(***************************************************************************)
(* Calls with invalid arguments among the player's calls.                  *)
(***************************************************************************)

\* rotate(axis, layer, direction, animate) with arguments of InvalidCommands.
\* Nothing in rotate throws: the call returns a promise that is fulfilled.
InvalidRotateCall ==
    /\ calls < MaxCalls
    /\ \E c \in InvalidCommands(size), animate \in BOOLEAN :
          \E s \in Rotate(Now, c, animate, "player") : Becomes(s)
    /\ lastOp' = Op("invalid")
    /\ UNCHANGED <<trail, input>>

NextArgs ==
    \/ RotateCall
    \/ InvalidRotateCall
    \/ AnimationComplete

SpecArgs == Init /\ [][NextArgs]_vars

(***************************************************************************)
(* Commutators: four non-animated rotate calls A, B, A', B' with A and B   *)
(* turns about different axes, on the cubes of size 2 and 3.               *)
(***************************************************************************)

\* rotate('x',1,+1), rotate('y',1,+1), rotate('x',1,-1), rotate('y',1,-1)
CommutatorCalls ==
    <<[axis |-> "x", layer |-> 1, direction |-> 1],
      [axis |-> "y", layer |-> 1, direction |-> 1],
      [axis |-> "x", layer |-> 1, direction |-> -1],
      [axis |-> "y", layer |-> 1, direction |-> -1]>>

Inverse(c) == [c EXCEPT !.direction = -c.direction]

CommutatorStep ==
    /\ Len(trail) < 4
    /\ \E c \in Commands(size) :
          /\ Len(trail) = 1 => c.axis # trail[1].cmd.axis
          /\ Len(trail) >= 2 => c = Inverse(trail[Len(trail) - 1].cmd)
          /\ \E s \in Rotate(Now, c, FALSE, "player") : Becomes(s)
          /\ trail' = Append(trail, [cmd |-> c, before |-> Pieces(cubies)])
    /\ lastOp' = Op("rotate")
    /\ UNCHANGED input

InitCommutator == InitSized({2, 3})

NextCommutator == CommutatorStep

SpecCommutator == InitCommutator /\ [][NextCommutator]_vars

(***************************************************************************)
(* Drag gestures: onMouseDown, onMouseMove, onMouseUp (the touch handlers  *)
(* call the same three functions).                                         *)
(***************************************************************************)

\* clientX and clientY of the pointer events.
PointerXs == {0, 30, 31}
PointerYs == {0, 31}
Points == [x : PointerXs, y : PointerYs]

\* The normals of the faces of a cubie's box, as <<x, y, z>>.
FaceNormals ==
    {<<1, 0, 0>>, <<-1, 0, 0>>, <<0, 1, 0>>, <<0, -1, 0>>, <<0, 0, 1>>, <<0, 0, -1>>}

\* The piece the pointer is pressed on in the gesture runs: the edge piece
\* created at the top front.
HitPieces(N) == {<<N \div 2, N - 1, N - 1>>} \cap SurfaceTriples(N)

\* intersects[0] of the raycaster: a cubie of this.cubies and one of its
\* faces that lies on the outside of the cube where the cubie is drawn.  The
\* cubie's quaternion is the identity, so the normal is the same in the
\* cubie's frame and in the world's.
Hits(cs, N, normals) ==
    {[object |-> t, normal |-> n] : t \in HitPieces(N), n \in normals} \cap
    {h \in [object : HitPieces(N), normal : normals] :
        \/ h.normal \notin FaceNormals
        \/ \E i \in 1 .. 3 :
              /\ h.normal[i] # 0
              /\ cs[h.object].position[<<"x", "y", "z">>[i]] = h.normal[i] * (N - 1)}

Abs(v) == IF v < 0 THEN -v ELSE v

\* onMouseDown: the drag state after a press of button at pt; hit is the
\* nearest intersection, NoFace when the ray meets no cubie.
OnMouseDown(d, button, pt, hit) ==
    IF button # 0 \/ hit = NoFace
    THEN d
    ELSE [isDragging |-> TRUE, dragStart |-> pt, selectedFace |-> hit]

\* The threshold test of onMouseMove.
OverThreshold(dx, dy) == Abs(dx) > 30 \/ Abs(dy) > 30

\* Mutant of GestureCommand: the direction not negated on the faces whose
\* normal is negative.
GestureCommand_NoFlip(n, u, dx, dy) ==
    LET flip(v) == 1
    IN  IF 2 * Abs(n[2]) > 1
        THEN IF Abs(dx) > Abs(dy)
             THEN [axis |-> "z", layer |-> u.z,
                   direction |-> (IF dx > 0 THEN 1 ELSE -1) * flip(n[2])]
             ELSE [axis |-> "x", layer |-> u.x,
                   direction |-> (IF dy > 0 THEN -1 ELSE 1) * flip(n[2])]
        ELSE IF 2 * Abs(n[1]) > 1
        THEN IF Abs(dx) > Abs(dy)
             THEN [axis |-> "y", layer |-> u.y,
                   direction |-> (IF dx > 0 THEN -1 ELSE 1) * flip(n[1])]
             ELSE [axis |-> "z", layer |-> u.z,
                   direction |-> (IF dy > 0 THEN 1 ELSE -1) * flip(n[1])]
        ELSE IF Abs(dx) > Abs(dy)
             THEN [axis |-> "y", layer |-> u.y,
                   direction |-> (IF dx > 0 THEN -1 ELSE 1) * flip(n[3])]
             ELSE [axis |-> "x", layer |-> u.x,
                   direction |-> (IF dy > 0 THEN 1 ELSE -1) * flip(n[3])]

\* "Determine which axis to rotate based on drag direction and face normal":
\* n is faceNormal, u the cubie's userData.  |n.y| > 0.5 is 2 * |n.y| > 1.
GestureCommand(n, u, dx, dy) ==
    LET flip(v) == IF v < 0 THEN -1 ELSE 1
    IN  IF 2 * Abs(n[2]) > 1
        THEN IF Abs(dx) > Abs(dy)
             THEN [axis |-> "z", layer |-> u.z,
                   direction |-> (IF dx > 0 THEN 1 ELSE -1) * flip(n[2])]
             ELSE [axis |-> "x", layer |-> u.x,
                   direction |-> (IF dy > 0 THEN -1 ELSE 1) * flip(n[2])]
        ELSE IF 2 * Abs(n[1]) > 1
        THEN IF Abs(dx) > Abs(dy)
             THEN [axis |-> "y", layer |-> u.y,
                   direction |-> (IF dx > 0 THEN -1 ELSE 1) * flip(n[1])]
             ELSE [axis |-> "z", layer |-> u.z,
                   direction |-> (IF dy > 0 THEN 1 ELSE -1) * flip(n[1])]
        ELSE IF Abs(dx) > Abs(dy)
             THEN [axis |-> "y", layer |-> u.y,
                   direction |-> (IF dx > 0 THEN -1 ELSE 1) * flip(n[3])]
             ELSE [axis |-> "x", layer |-> u.x,
                   direction |-> (IF dy > 0 THEN 1 ELSE -1) * flip(n[3])]

\* Mutant of EndDrag: the drag left open after the command.
EndDrag_StaysOpen(d) == d

\* The end of a drag: by the command issued, or by onMouseUp.
EndDrag(d) == [d EXCEPT !.isDragging = FALSE, !.selectedFace = NoFace]

\* History of a call made by a handler.
NoteIssued(source, piece, key, shift) ==
    Append(issued, [ticket |-> calls + 1, source |-> source, piece |-> piece,
                    key |-> key, shift |-> shift])

MouseDownOn(normals) ==
    /\ \E button \in {0, 2}, pt \in Points,
          hit \in Hits(cubies, size, normals) \cup {NoFace} :
          /\ drag' = OnMouseDown(drag, button, pt, hit)
          /\ sincePress' = IF drag' # drag THEN 0 ELSE sincePress
    /\ lastOp' = [op |-> "down", solvedBefore |-> IsSolved(cubies, size)]
    /\ UNCHANGED <<size, cubies, isAnimating, moveQueue, moves, isTimerRunning,
                   isSolved, modalShown, turn, calls, done, queueMeta, turnMeta,
                   lastBegun, sinceZero, scrambled, trail, issued>>

\* A press on the canvas.
MouseDown == MouseDownOn(FaceNormals)

\* A pointer move on the canvas.
MouseMove ==
    /\ calls < MaxDrags
    /\ \E pt \in Points :
          IF ~drag.isDragging \/ drag.selectedFace = NoFace
          THEN /\ lastOp' = [op |-> "move", solvedBefore |-> IsSolved(cubies, size),
                             pressed |-> FALSE, far |-> FALSE,
                             normal |-> <<>>, dx |-> 0, dy |-> 0]
               /\ UNCHANGED <<size, cubies, isAnimating, moveQueue, moves,
                              isTimerRunning, isSolved, modalShown, turn, calls,
                              done, queueMeta, turnMeta, lastBegun, sinceZero,
                              scrambled, trail, input>>
          ELSE LET dx == pt.x - drag.dragStart.x
                   dy == pt.y - drag.dragStart.y
                   cubie == drag.selectedFace.object
                   over == OverThreshold(dx, dy)
               IN  /\ lastOp' = [op |-> "move", solvedBefore |-> IsSolved(cubies, size),
                                 pressed |-> TRUE,
                                 far |-> (dx > 30 \/ dx < -30 \/ dy > 30 \/ dy < -30),
                                 normal |-> IF over THEN drag.selectedFace.normal
                                            ELSE <<>>,
                                 dx |-> IF over THEN dx ELSE 0,
                                 dy |-> IF over THEN dy ELSE 0]
                   /\ IF OverThreshold(dx, dy)
                      THEN /\ \E s \in Rotate(Now,
                                     GestureCommand(drag.selectedFace.normal,
                                                    cubies[cubie].userData, dx, dy),
                                     TRUE, "player") : Becomes(s)
                           /\ drag' = EndDrag(drag)
                           /\ issued' = NoteIssued("drag", cubie, "", FALSE)
                           /\ sincePress' = sincePress + 1
                           /\ UNCHANGED trail
                      ELSE UNCHANGED <<size, cubies, isAnimating, moveQueue, moves,
                                       isTimerRunning, isSolved, modalShown, turn,
                                       calls, done, queueMeta, turnMeta, lastBegun,
                                       sinceZero, scrambled, trail, input>>

\* The release.
MouseUp ==
    /\ drag' = EndDrag(drag)
    /\ lastOp' = [op |-> "up", solvedBefore |-> IsSolved(cubies, size)]
    /\ UNCHANGED <<size, cubies, isAnimating, moveQueue, moves, isTimerRunning,
                   isSolved, modalShown, turn, calls, done, queueMeta, turnMeta,
                   lastBegun, sinceZero, scrambled, trail, issued, sincePress>>

InitGesture == InitSized({3})

NextGesture ==
    \/ MouseDown
    \/ MouseMove
    \/ MouseUp
    \/ AnimationComplete

SpecGesture == InitGesture /\ [][NextGesture]_vars

(***************************************************************************)
(* Keys: onKeyDown.                                                        *)
(***************************************************************************)

\* event.key: the letters of the nine turns in either case, and a key that
\* has no case in the switch.
Keys == {"u", "U", "d", "D", "l", "L", "r", "R", "f", "F", "b", "B",
         "m", "M", "e", "E", "s", "S", "x"}

\* event.key.toUpperCase()
ToUpperCase(key) ==
    CASE key = "u" -> "U" [] key = "d" -> "D" [] key = "l" -> "L"
      [] key = "r" -> "R" [] key = "f" -> "F" [] key = "b" -> "B"
      [] key = "m" -> "M" [] key = "e" -> "E" [] key = "s" -> "S"
      [] key = "x" -> "X"
      [] OTHER -> key

\* The switch of onKeyDown: the arguments of the rotate call it makes for a
\* key, none for a key it has no case for or a slice key on a size below 3.
KeyCommand(key, shift, N) ==
    LET direction == IF shift THEN -1 ELSE 1
    IN  CASE key = "U" -> {[axis |-> "y", layer |-> N - 1, direction |-> direction]}
          [] key = "D" -> {[axis |-> "y", layer |-> 0, direction |-> -direction]}
          [] key = "R" -> {[axis |-> "x", layer |-> N - 1, direction |-> direction]}
          [] key = "L" -> {[axis |-> "x", layer |-> 0, direction |-> -direction]}
          [] key = "F" -> {[axis |-> "z", layer |-> N - 1, direction |-> direction]}
          [] key = "B" -> {[axis |-> "z", layer |-> 0, direction |-> -direction]}
          [] key = "M" -> IF N >= 3
                          THEN {[axis |-> "x", layer |-> N \div 2,
                                 direction |-> -direction]}
                          ELSE {}
          [] key = "E" -> IF N >= 3
                          THEN {[axis |-> "y", layer |-> N \div 2,
                                 direction |-> -direction]}
                          ELSE {}
          [] key = "S" -> IF N >= 3
                          THEN {[axis |-> "z", layer |-> N \div 2,
                                 direction |-> direction]}
                          ELSE {}
          [] OTHER -> {}

\* A key press; event.shiftKey is shift.
KeyDown ==
    /\ calls < MaxKeys
    /\ \E key \in Keys, shift \in BOOLEAN :
          LET cmds == KeyCommand(ToUpperCase(key), shift, size)
          IN  IF cmds = {}
              THEN UNCHANGED <<size, cubies, isAnimating, moveQueue, moves,
                               isTimerRunning, isSolved, modalShown, turn, calls,
                               done, queueMeta, turnMeta, lastBegun, sinceZero,
                               scrambled, issued>>
              ELSE /\ \E c \in cmds :
                         \E s \in Rotate(Now, c, TRUE, "player") : Becomes(s)
                   /\ issued' = NoteIssued("key", <<>>, ToUpperCase(key), shift)
    /\ lastOp' = Op("key")
    /\ UNCHANGED <<trail, drag, sincePress>>

NextKeys ==
    \/ KeyDown
    \/ AnimationComplete

SpecKeys == Init /\ [][NextKeys]_vars

(***************************************************************************)
(* Gestures whose hit may carry a degenerate normal.  The raycaster takes  *)
(* the normal from the triangle it hit (Triangle.getNormal gives the zero  *)
(* vector for a triangle without area); the faces of the box geometry      *)
(* createCubie makes always give one of FaceNormals.                       *)
(***************************************************************************)

DegenerateNormals == {<<0, 0, 0>>}

\* A press whose hit may be any face, degenerate ones included.
MouseDownAny == MouseDownOn(FaceNormals \cup DegenerateNormals)

NextHit ==
    \/ MouseDownAny
    \/ MouseMove
    \/ MouseUp
    \/ AnimationComplete

SpecHit == InitGesture /\ [][NextHit]_vars

(***************************************************************************)
(* Spins: non-animated rotate calls about the axis the first call chose,   *)
(* on any layer, on the cubes of size 2 and 3.  Two quarter turns of every *)
(* layer turn the whole cube upside down.                                  *)
(***************************************************************************)

SpinLayer ==
    /\ calls < MaxSpins
    /\ \E c \in Commands(size) :
          /\ calls > 0 => c.axis = lastBegun.cmd.axis
          /\ \E s \in Rotate(Now, c, FALSE, "player") : Becomes(s)
    /\ lastOp' = Op("rotate")
    /\ UNCHANGED <<trail, input>>

InitSpins == InitSized({2, 3})

NextSpins == SpinLayer

SpecSpins == InitSpins /\ [][NextSpins]_vars

TypeOK ==
    /\ size \in Sizes
    /\ DOMAIN cubies = SurfaceTriples(size)
    /\ isAnimating \in BOOLEAN
    /\ Len(moveQueue) = Len(queueMeta)
    /\ (turn = NoTurn) = ~isAnimating
    /\ moves >= 0

(***************************************************************************)
(* Claims                                                                  *)
(***************************************************************************)

Idle == ~isAnimating /\ moveQueue = <<>>

TurnCommand == [axis |-> turn.axis, layer |-> turn.layer, direction |-> turn.direction]

\* C1: the calls made while a turn animates are applied once each, in the
\* order they were made, after the turn in progress: the turn in progress is
\* the oldest call not yet applied and carries the command that call gave,
\* the queue holds the later calls' commands in call order, and when nothing
\* is in progress or queued every call has been applied.
C1_QueuedAppliedInCallOrder ==
    /\ Len(moveQueue) = Len(queueMeta)
    /\ turn # NoTurn =>
          /\ turnMeta.ticket = done + 1
          /\ TurnCommand = turnMeta.cmd
    /\ \A i \in 1 .. Len(moveQueue) :
          /\ turn # NoTurn
          /\ queueMeta[i].ticket = done + 1 + i
          /\ moveQueue[i] = queueMeta[i].cmd
    /\ done + (IF turn # NoTurn THEN 1 ELSE 0) + Len(moveQueue) = calls
    /\ Idle => done = calls

\* A queued call has just begun behind the turn it waited for, and a later
\* call still waits behind it.
C1_Witness ==
    /\ lastOp.op = "complete"
    /\ turn # NoTurn
    /\ Len(moveQueue) >= 1
    /\ moveQueue[1] # TurnCommand

\* C2: whenever no turn is in progress every piece's gridPosition has its
\* three components in [0, N-1] and its orientation is a multiple of 90
\* degrees about each axis (a permutation of the six face directions that
\* keeps opposite faces opposite).
C2_GridPositionsInRange ==
    ~isAnimating =>
        \A t \in DOMAIN cubies :
            /\ \A a \in Axes : cubies[t].userData[a] \in 0 .. size - 1
            /\ \A i \in FaceIndices :
                  /\ cubies[t].quaternion[i] \in FaceIndices
                  /\ cubies[t].quaternion[i] \div 2 = cubies[t].quaternion[(i \div 2) * 2] \div 2

\* The pieces after the i-th turn of the trail.
PiecesAfter(i) == IF i = Len(trail) THEN Pieces(cubies) ELSE trail[i + 1].before

\* C3: rotate(axis, layer, +1) followed by rotate(axis, layer, -1) restores
\* every piece's gridPosition and orientation; on a solved cube of size 3,
\* U then U' leaves the initial pieces, isSolved() true and 2 moves.
C3_TurnThenInverseIsIdentity ==
    /\ \A i \in 1 .. Len(trail) - 1 :
          (/\ trail[i].cmd.direction = 1
           /\ trail[i + 1].cmd = [trail[i].cmd EXCEPT !.direction = -1])
          => PiecesAfter(i + 1) = trail[i].before
    /\ (/\ size = 3
        /\ Len(trail) = 2
        /\ trail[1].cmd = [axis |-> "y", layer |-> 2, direction |-> 1]
        /\ trail[2].cmd = [axis |-> "y", layer |-> 2, direction |-> -1])
       => /\ Pieces(cubies) = Pieces(CreateCube(3))
          /\ IsSolved(cubies, size)
          /\ moves = 2

\* C4: the same rotate(axis, layer, direction) four times in a row returns
\* every piece of the layer to the gridPosition and orientation it had.
C4_QuarterTurnHasOrderFour ==
    \A i \in 1 .. Len(trail) - 3 :
        (\A j \in i + 1 .. i + 3 : trail[j].cmd = trail[i].cmd)
        => \A t \in DOMAIN cubies :
               trail[i].before[t].gridPosition[trail[i].cmd.axis] = trail[i].cmd.layer
               => PiecesAfter(i + 3)[t] = trail[i].before[t]

\* C5: isSolved() is true on a freshly constructed cube and right after
\* reset().
C5_SolvedWhenFreshAndAfterReset ==
    lastOp.op \in {"init", "reset"} => IsSolved(cubies, size)

\* reset() was called on pieces that were not solved.
C5_Witness ==
    /\ lastOp.op = "reset"
    /\ ~lastOp.solvedBefore
    /\ done >= 1

\* C6: the move counter is 0 after construction and after reset(); it goes
\* up only when a player-issued rotate call begins to execute, then by
\* exactly one, and every such call raises it by one.
C6_OnlyPlayerCallsRaiseMoves ==
    /\ moves = 0
    /\ [][/\ lastOp'.op = "reset" => moves' = 0
          /\ moves' > moves =>
                /\ moves' = moves + 1
                /\ lastBegun' # lastBegun
                /\ lastBegun'.origin = "player"
          /\ (lastBegun' # lastBegun /\ lastBegun'.origin = "player") =>
                moves' = moves + 1]_vars

\* C7: once every turn a scramble issued has been applied, the move counter
\* is the number of player-issued turns executed since that scramble call.
C7_ScrambleTurnsNeverCount ==
    (Idle /\ scrambled) => moves = sinceZero

\* C8: a turn that leaves the pieces solved signals the session before any
\* further turn begins: the modal is up; with no queued turn the solved flag
\* is set and the timer stopped when rotate returns; a queued turn that
\* begins next finds the flag set and the timer stopped.
C8_SolvedSignalledAfterTurn ==
    [][(/\ done' = done + 1
        /\ lastOp'.op \in {"rotate", "complete"}
        /\ IsSolved(cubies', size'))
       => /\ modalShown'
          /\ turn' = NoTurn => (isSolved' /\ ~isTimerRunning')
          /\ turn' # NoTurn => (/\ lastBegun'.solvedAtBegin
                                /\ ~lastBegun'.timerAtBegin)]_vars

\* An animated turn brought scrambled pieces back to solved, and a queued
\* turn began behind it.
C8_Witness ==
    /\ lastOp.op = "complete"
    /\ ~lastOp.solvedBefore
    /\ turn # NoTurn
    /\ ~turn.discarded
    /\ IsSolved(cubies, size)
    /\ lastBegun.solvedAtBegin
    /\ modalShown

\* C9: the timer goes from stopped to running only when a player-issued turn
\* begins while the solved flag is set.
C9_TimerStartsOnPlayerTurnOnly ==
    [][(~isTimerRunning /\ isTimerRunning')
       => /\ lastBegun' # lastBegun
          /\ lastBegun'.origin = "player"
          /\ lastBegun'.solvedAtBegin]_vars

\* C10: a rotate call made while a turn is in progress appends its command
\* at the tail of the queue and changes nothing else.
C10_CallWhileAnimatingOnlyQueues ==
    [][(isAnimating /\ lastOp'.op = "rotate")
       => /\ Len(moveQueue') = Len(moveQueue) + 1
          /\ SubSeq(moveQueue', 1, Len(moveQueue)) = moveQueue
          /\ moveQueue'[Len(moveQueue')] = queueMeta'[Len(queueMeta')].cmd
          /\ queueMeta'[Len(queueMeta')].ticket = calls'
          /\ UNCHANGED <<size, cubies, isAnimating, moves, isTimerRunning,
                         isSolved, modalShown, turn>>]_vars

\* A call was queued behind a waiting call with another command.
C10_Witness ==
    /\ lastOp.op = "rotate"
    /\ isAnimating
    /\ Len(moveQueue) = 2
    /\ moveQueue[1] # moveQueue[2]
    /\ queueMeta[2].ticket = calls

\* C11: at most one turn is in progress.  A call begins to execute only when
\* no turn is in progress, or in the step in which the turn in progress
\* completes its mutation; while a turn is in progress every rotate call of a
\* key, a gesture or scramble is queued, and the turn in progress, the pieces
\* and the number of completed turns stay as they are.
C11_AtMostOneTurnInProgress ==
    [][/\ isAnimating' = (turn' # NoTurn)
       /\ lastBegun' # lastBegun => (~isAnimating \/ done' = done + 1)
       /\ (isAnimating /\ lastOp'.op \in {"rotate", "scramble"})
          => /\ Len(moveQueue') - Len(moveQueue) = calls' - calls
             /\ lastBegun' = lastBegun
             /\ turn' = turn
             /\ cubies' = cubies
             /\ done' = done]_vars

\* Scramble was called while a turn was animating: its calls wait in the queue.
C11_Witness ==
    /\ lastOp.op = "scramble"
    /\ isAnimating
    /\ Len(moveQueue) >= 2
    /\ queueMeta[Len(queueMeta)].origin = "scramble"
    /\ turnMeta.origin = "player"

\* C12: a command leaves the queue only from its head and only to begin
\* executing as the turn in progress; every queued call is eventually
\* completed, and a turn in progress leads to a state with no turn in
\* progress and an empty queue.
C12_QueuedEventuallyExecuted ==
    /\ [][Len(moveQueue') < Len(moveQueue)
          => /\ moveQueue' = Tail(moveQueue)
             /\ turn' # NoTurn
             /\ [axis |-> turn'.axis, layer |-> turn'.layer,
                 direction |-> turn'.direction] = moveQueue[1]
             /\ turnMeta'.ticket = queueMeta[1].ticket]_vars
    /\ \A k \in 1 .. MaxCalls :
          (\E i \in 1 .. Len(queueMeta) : queueMeta[i].ticket = k) ~> (done >= k)
    /\ (turn # NoTurn) ~> Idle

\* The last of two queued commands was taken from the queue and is executing.
C12_Witness ==
    /\ lastOp.op = "complete"
    /\ turn # NoTurn
    /\ moveQueue = <<>>
    /\ done >= 2
    /\ turnMeta.ticket = done + 1

\* C13: right after reset(), in whatever state it was called, the puzzle is
\* a fresh solved cube of the same size: every piece at its original
\* gridPosition, no turn in progress and no command waiting in the queue to
\* move the pieces later, move counter 0, solved flag set, timer stopped.
C13_ResetGivesFreshCube ==
    lastOp.op = "reset"
    => /\ Pieces(cubies) = Pieces(CreateCube(size))
       /\ ~isAnimating
       /\ turn = NoTurn
       /\ moveQueue = <<>>
       /\ moves = 0
       /\ isSolved
       /\ ~isTimerRunning

\* C14: a rotate call with a layer index outside [0, N-1] or an axis other
\* than x, y, z leaves the pieces, the move counter, the timer, the solved
\* flag and the queue as they were, and raises no solved notification.
C14_InvalidCallRejected ==
    [][lastOp'.op = "invalid"
       => UNCHANGED <<cubies, moves, isTimerRunning, isSolved, moveQueue,
                      modalShown>>]_vars

\* C15: on the solved cube of size 2, after rotate('x',1,+1,false),
\* rotate('y',1,+1,false), rotate('x',1,-1,false), rotate('y',1,-1,false)
\* isSolved() is false.
C15_CommutatorLeavesUnsolved ==
    (/\ size = 2
     /\ Len(trail) = 4
     /\ \A i \in 1 .. 4 : trail[i].cmd = CommutatorCalls[i])
    => ~IsSolved(cubies, size)

\* The four calls were made on the cube of size 2, and the first two found
\* cubies in their layers.
C15_Witness ==
    /\ size = 2
    /\ Len(trail) = 4
    /\ \A i \in 1 .. 4 : trail[i].cmd = CommutatorCalls[i]
    /\ done = 4
    /\ trail[2].before # trail[1].before
    /\ trail[3].before # trail[2].before

\* C16: whenever a call made by a drag gesture is the turn in progress, at
\* once or after waiting in the queue, the dragged piece is among the cubies
\* the turn rotates.
C16_DragTurnsLayerOfDraggedPiece ==
    turn # NoTurn
    => \A i \in 1 .. Len(issued) :
           (issued[i].ticket = turnMeta.ticket /\ issued[i].source = "drag")
           => issued[i].piece \in turn.cubiesInLayer

\* C17: a pointer move issues a rotate call exactly when a piece is pressed
\* and |dx| > 30 or |dy| > 30 from the press point; the call ends the drag,
\* so that a press issues at most one; a move below the threshold, a press
\* and a release leave the pieces, the queue, the turn in progress, the move
\* counter, the timer and the solved flag as they were.
C17_OneCommandPastThreshold ==
    [][/\ (lastOp'.op = "move" /\ calls' # calls)
          => /\ lastOp'.pressed
             /\ lastOp'.far
             /\ calls' = calls + 1
             /\ ~drag'.isDragging
       /\ (lastOp'.op = "move" /\ lastOp'.pressed /\ lastOp'.far)
          => calls' = calls + 1
       /\ lastOp'.op \in {"down", "up"} \/ (lastOp'.op = "move" /\ calls' = calls)
          => UNCHANGED <<cubies, moveQueue, turn, isAnimating, moves,
                         isTimerRunning, isSolved, modalShown, calls>>
       /\ sincePress' <= 1]_vars

\* A move past the threshold issued the one command of its press while the
\* turn of an earlier gesture was animating.
C17_Witness ==
    /\ lastOp.op = "move"
    /\ lastOp.far
    /\ sincePress = 1
    /\ calls = 2
    /\ ~drag.isDragging
    /\ Len(moveQueue) = 1

FaceOfKey(key) ==
    CASE key = "U" -> [axis |-> "y", side |-> 1]
      [] key = "D" -> [axis |-> "y", side |-> -1]
      [] key = "R" -> [axis |-> "x", side |-> 1]
      [] key = "L" -> [axis |-> "x", side |-> -1]
      [] key = "F" -> [axis |-> "z", side |-> 1]
      [] OTHER -> [axis |-> "z", side |-> -1]

\* gridPosition of the doubled centred position w.
GridOf(w, N) == [a \in Axes |-> (w[a] + (N - 1)) \div 2]

\* C19: the turn a key U, D, L, R, F, B begins acts on the outer layer of
\* that face, and when it completes every piece of the layer has gone a
\* quarter turn clockwise as seen from outside the face (-90 degrees about
\* the outward normal), counter-clockwise with Shift.
C19_KeysTurnClockwise ==
    [][(/\ turn # NoTurn
        /\ done' = done + 1
        /\ \E i \in 1 .. Len(issued) :
              /\ issued[i].ticket = turnMeta.ticket
              /\ issued[i].source = "key"
              /\ issued[i].key \in {"U", "D", "L", "R", "F", "B"})
       => LET k == CHOOSE i \in 1 .. Len(issued) : issued[i].ticket = turnMeta.ticket
              face == FaceOfKey(issued[k].key)
              layer == {t \in DOMAIN cubies :
                           cubies[t].userData[face.axis] =
                               IF face.side = 1 THEN size - 1 ELSE 0}
              quarter == (IF issued[k].shift THEN 1 ELSE -1) * face.side
          IN  /\ turn.cubiesInLayer = layer
              /\ \A t \in layer :
                    cubies'[t].userData =
                        GridOf(WorldPosition(cubies[t].position, face.axis, quarter),
                               size)]_vars

\* The gridPosition of piece t as a triple.
GridTriple(t) == <<cubies[t].userData.x, cubies[t].userData.y, cubies[t].userData.z>>

\* C20: on a cube of size N >= 2, whenever no turn is in progress no two
\* pieces have the same gridPosition and the occupied gridPositions are
\* exactly the triples of [0, N-1]^3 with a coordinate equal to 0 or N-1.
C20_PiecesPermuteOverShell ==
    (size >= 2 /\ ~isAnimating)
    => /\ \A t, u \in DOMAIN cubies : GridTriple(t) = GridTriple(u) => t = u
       /\ {GridTriple(t) : t \in DOMAIN cubies} = SurfaceTriples(size)

\* The six face directions as vectors, and the index of such a vector.
DirVector(i) ==
    [x |-> IF i = 0 THEN 1 ELSE IF i = 1 THEN -1 ELSE 0,
     y |-> IF i = 2 THEN 1 ELSE IF i = 3 THEN -1 ELSE 0,
     z |-> IF i = 4 THEN 1 ELSE IF i = 5 THEN -1 ELSE 0]

DirIndex(v) == CHOOSE i \in FaceIndices : DirVector(i) = v

\* An orientation composed with the rotation by direction * 90 degrees
\* about axis: every local face points where the rotation takes the
\* direction it pointed in.
Turned(orientation, axis, direction) ==
    [i \in FaceIndices |->
        DirIndex(WorldPosition(DirVector(orientation[i]), axis, direction))]

\* C21: when a turn (axis, layer, direction) completes, the orientation of
\* every piece of the selected layer is its orientation before the turn
\* composed with the rotation by direction * 90 degrees about axis, and so
\* differs from what it was.
C21_TurnComposesOrientation ==
    \A i \in 1 .. Len(trail) :
        \A t \in DOMAIN cubies :
            trail[i].before[t].gridPosition[trail[i].cmd.axis] = trail[i].cmd.layer
            => /\ PiecesAfter(i)[t].orientation =
                      Turned(trail[i].before[t].orientation,
                             trail[i].cmd.axis, trail[i].cmd.direction)
               /\ PiecesAfter(i)[t].orientation # trail[i].before[t].orientation

\* The pieces whose gridPosition component along axis is layer.
GridLayer(cs, axis, layer) == {t \in DOMAIN cs : cs[t].userData[axis] = layer}

\* C22: on a cube of size N >= 2, the pieces an executed turn (axis, layer,
\* direction) rotates are exactly the pieces whose gridPosition component
\* along axis is layer: the test on render positions selects the same set
\* as integer equality on userData.
C22_SelectionIsGridLayer ==
    [][(size >= 2 /\ Len(trail') = Len(trail) + 1)
       => LET c == trail'[Len(trail')].cmd
          IN  GetCubiesInLayer(cubies, size, c.axis, c.layer) =
                  GridLayer(cubies, c.axis, c.layer)]_vars

\* C23: whenever no turn is in progress and the queue is empty, the solved
\* flag state.isSolved equals the result of isSolved() on the pieces,
\* whatever rotate, scramble and reset calls came before.
C23_FlagEqualsQuery ==
    Idle => (isSolved = IsSolved(cubies, size))

\* C24: a queued command is executed with the animate argument of the
\* rotate call that queued it: a call made with animate = false is applied
\* without an animation also when it had to wait in the queue, so that every
\* call that is suspended in its animation was made with animate = true.
C24_QueuedKeepsAnimateFlag ==
    turn # NoTurn => turnMeta.animate

\* The gridPosition the quarter turn (axis, direction) gives the cubie c.
TurnedGrid(c, N, axis, direction) ==
    GridOf(WorldPosition(c.position, axis, direction), N)

\* C25: the logical mutation of a turn is atomic.  While an animated turn
\* stays in progress every piece keeps its gridPosition; in the one step in
\* which its animation completes every selected piece takes its post-turn
\* gridPosition and no other piece changes; a non-animated turn that finds no
\* turn in progress does the same within the rotate call.
C25_MutationIsAtomic ==
    [][/\ (turn # NoTurn /\ done' = done /\ lastOp'.op # "reset")
          => /\ turn' = turn
             /\ \A t \in DOMAIN cubies : cubies'[t].userData = cubies[t].userData
       /\ (turn # NoTurn /\ ~turn.discarded /\ done' = done + 1)
          => \A t \in DOMAIN cubies :
                 IF t \in turn.cubiesInLayer
                 THEN cubies'[t].userData =
                          TurnedGrid(cubies[t], size, turn.axis, turn.direction)
                 ELSE cubies'[t] = cubies[t]
       /\ (~isAnimating /\ lastOp'.op = "rotate" /\ ~lastBegun'.animate)
          => /\ done' = done + 1
             /\ turn' = NoTurn
             /\ \A t \in DOMAIN cubies :
                   IF t \in GetCubiesInLayer(cubies, size, lastBegun'.cmd.axis,
                                             lastBegun'.cmd.layer)
                   THEN cubies'[t].userData =
                            TurnedGrid(cubies[t], size, lastBegun'.cmd.axis,
                                       lastBegun'.cmd.direction)
                   ELSE cubies'[t] = cubies[t]]_vars

\* The animation of the first turn of a cube of size 3 has completed and
\* has moved pieces of its layer.
C25_Witness ==
    /\ lastOp.op = "complete"
    /\ size = 3
    /\ calls = 1
    /\ done = 1
    /\ lastBegun.animate
    /\ Cardinality({t \in DOMAIN cubies : GridTriple(t) # t}) >= 2

\* C26: on a cube of size N >= 2 an executed turn (axis, layer, direction)
\* changes only the pieces of the selected layer: a piece whose gridPosition
\* component along axis is not layer keeps its gridPosition and orientation,
\* and a selected piece keeps its component along axis equal to layer.
C26_TurnChangesOnlyItsLayer ==
    size >= 2 =>
        \A i \in 1 .. Len(trail) :
            \A t \in DOMAIN cubies :
                LET c == trail[i].cmd
                    b == trail[i].before[t]
                    a == PiecesAfter(i)[t]
                IN  IF b.gridPosition[c.axis] # c.layer
                    THEN a = b
                    ELSE a.gridPosition[c.axis] = c.layer

\* C27 as stated: a rotate call made while another turn is in progress
\* raises the move counter by one at the time of the call.
C27_CountedWhenQueued ==
    [][(isAnimating /\ lastOp'.op = "rotate") => moves' = moves + 1]_vars

\* C27, amended: a rotate call made while another turn is in progress
\* leaves the move counter as it is; the counter goes up by one in the later
\* step in which the command leaves the queue and begins to execute.
C27_CountedWhenDequeued ==
    [][/\ (isAnimating /\ lastOp'.op = "rotate")
          => (moves' = moves /\ Len(moveQueue') = Len(moveQueue) + 1)
       /\ Len(moveQueue') < Len(moveQueue)
          => (moves' = moves + 1 /\ turnMeta'.ticket = queueMeta[1].ticket)]_vars

\* The second of two player calls waited in the queue and has begun: the
\* counter shows 2 only now.
C27_Witness ==
    /\ lastOp.op = "complete"
    /\ calls = 2
    /\ done = 1
    /\ turn # NoTurn
    /\ turnMeta.ticket = 2
    /\ turnMeta.origin = "player"
    /\ moves = 2

\* The right-hand-rule quarter turn of the gridPosition g about axis through
\* the grid centre (N-1)/2, in doubled centred coordinates: for direction +1
\* about x (y,z) -> (-z,y), about y (z,x) -> (-x,z), about z (x,y) -> (-y,x);
\* direction -1 is the inverse.
RightHandTurn(g, N, axis, direction) ==
    LET c == [a \in Axes |-> 2 * g[a] - (N - 1)]
        w == CASE axis = "x" -> [x |-> c.x,
                                 y |-> IF direction = 1 THEN -c.z ELSE c.z,
                                 z |-> IF direction = 1 THEN c.y ELSE -c.y]
               [] axis = "y" -> [x |-> IF direction = 1 THEN c.z ELSE -c.z,
                                 y |-> c.y,
                                 z |-> IF direction = 1 THEN -c.x ELSE c.x]
               [] OTHER -> [x |-> IF direction = 1 THEN -c.y ELSE c.y,
                            y |-> IF direction = 1 THEN c.x ELSE -c.x,
                            z |-> c.z]
    IN  [a \in Axes |-> (w[a] + (N - 1)) \div 2]

\* C28: on a cube of size N >= 2 an executed turn (axis, layer, direction)
\* takes the gridPosition of every selected piece to its image under the
\* right-hand-rule rotation by direction * 90 degrees about axis through the
\* grid centre, an integer triple of [0, N-1]^3.
C28_TurnIsRightHandQuarterTurn ==
    size >= 2 =>
        \A i \in 1 .. Len(trail) :
            \A t \in DOMAIN cubies :
                LET c == trail[i].cmd
                    b == trail[i].before[t].gridPosition
                IN  b[c.axis] = c.layer
                    => PiecesAfter(i)[t].gridPosition =
                           RightHandTurn(b, size, c.axis, c.direction)

\* C29: on a cube of size N >= 2, whenever isSolved() returns true every
\* boundary direction shows one of the six colours: no piece of a boundary
\* layer presents a black (interior) face toward that direction.
C29_SolvedShowsNoBlack ==
    (size >= 2 /\ ~isAnimating /\ IsSolved(cubies, size))
    => \A faceIndex \in FaceIndices : "black" \notin FaceColors(cubies, size, faceIndex)

\* The table of the gesture interpreter: for the class of the hit face and
\* the orientation of the drag, the axis of the turn and the base direction.
GestureTable(face, horizontal, dx, dy) ==
    CASE face = "Y" /\ horizontal -> [axis |-> "z", base |-> IF dx > 0 THEN 1 ELSE -1]
      [] face = "Y" /\ ~horizontal -> [axis |-> "x", base |-> IF dy > 0 THEN -1 ELSE 1]
      [] face = "X" /\ horizontal -> [axis |-> "y", base |-> IF dx > 0 THEN -1 ELSE 1]
      [] face = "X" /\ ~horizontal -> [axis |-> "z", base |-> IF dy > 0 THEN 1 ELSE -1]
      [] face = "Z" /\ horizontal -> [axis |-> "y", base |-> IF dx > 0 THEN -1 ELSE 1]
      [] OTHER -> [axis |-> "x", base |-> IF dy > 0 THEN 1 ELSE -1]

\* The class of a normal with a dominant component, tested in the order Y,
\* X, Z, and the index of that component in <<x, y, z>>.
FaceClass(n) ==
    IF 2 * Abs(n[2]) > 1 THEN [face |-> "Y", index |-> 2]
    ELSE IF 2 * Abs(n[1]) > 1 THEN [face |-> "X", index |-> 1]
    ELSE [face |-> "Z", index |-> 3]

\* C30: for a hit face whose normal has a dominant component and a drag
\* (dx, dy) past the threshold, the command the gesture issues is the one of
\* the table: the axis and base direction of the face class and the drag
\* orientation (|dx| = |dy| counts as vertical), the layer the pressed
\* piece's gridPosition component along that axis, and the direction negated
\* when the dominant component of the normal is negative.
C30_GestureFollowsTable ==
    [][(/\ lastOp'.op = "move"
        /\ calls' = calls + 1
        /\ \E i \in 1 .. 3 : 2 * Abs(drag.selectedFace.normal[i]) > 1)
       => LET n == drag.selectedFace.normal
              u == cubies[drag.selectedFace.object].userData
              class == FaceClass(n)
              row == GestureTable(class.face, Abs(lastOp'.dx) > Abs(lastOp'.dy),
                                  lastOp'.dx, lastOp'.dy)
              cmd == IF isAnimating
                     THEN moveQueue'[Len(moveQueue')]
                     ELSE [axis |-> turn'.axis, layer |-> turn'.layer,
                           direction |-> turn'.direction]
          IN  /\ cmd.axis = row.axis
              /\ cmd.layer = u[row.axis]
              /\ cmd.direction = IF n[class.index] < 0 THEN -row.base ELSE row.base]_vars

\* A diagonal drag (|dx| = |dy|) on a face whose normal is negative has
\* issued a command.
C30_Witness ==
    /\ lastOp.op = "move"
    /\ lastOp.far
    /\ Abs(lastOp.dx) = Abs(lastOp.dy)
    /\ \E i \in 1 .. 3 : lastOp.normal[i] = -1
    /\ turn # NoTurn
    /\ turnMeta.ticket = calls

\* The colour the piece t presents toward world direction d: the material of
\* the local face that its orientation turns to d.
Presented(cs, t, N, d) ==
    FaceMaterial(t, N, CHOOSE i \in FaceIndices : cs[t].quaternion[i] = d)

\* The pieces occupying the boundary layer of direction d: index N-1 along
\* the axis for the positive directions, index 0 for the negative ones.
BoundaryLayer(cs, N, d) ==
    {t \in DOMAIN cs :
        cs[t].userData[<<"x", "x", "y", "y", "z", "z">>[d + 1]] =
            IF d % 2 = 0 THEN N - 1 ELSE 0}

\* C31: isSolved() returns true if and only if, for each of the six boundary
\* directions, all pieces occupying that boundary layer present the same
\* colour toward that direction; a direction whose boundary layer holds no
\* piece counts as uniform.
C31_SolvedIffFacesUniform ==
    ~isAnimating =>
        (IsSolved(cubies, size)
         <=> \A d \in FaceIndices :
                 \A t, u \in BoundaryLayer(cubies, size, d) :
                     Presented(cubies, t, size, d) = Presented(cubies, u, size, d))

\* Turns have left a boundary layer without any piece and the pieces of the
\* other boundary layers uniform: isSolved() returns true.
C31_Witness ==
    /\ done >= 1
    /\ ~isAnimating
    /\ \E d \in FaceIndices : BoundaryLayer(cubies, size, d) = {}
    /\ IsSolved(cubies, size)

\* The triples of [0, N-1]^3 that are not strictly interior.
Shell(N) ==
    {g \in (0 .. N - 1) \X (0 .. N - 1) \X (0 .. N - 1) :
        ~(\A i \in 1 .. 3 : g[i] \in 1 .. N - 2)}

\* C32: right after construction and right after reset() there is exactly
\* one piece for each triple of [0, N-1]^3 with a coordinate equal to 0 or
\* N-1 and none for a strictly interior triple: N^3 - (N-2)^3 pieces for
\* N >= 2.
C32_OnePiecePerSurfaceTriple ==
    lastOp.op \in {"init", "reset"}
    => /\ {GridTriple(t) : t \in DOMAIN cubies} = Shell(size)
       /\ \A t, u \in DOMAIN cubies : GridTriple(t) = GridTriple(u) => t = u
       /\ size >= 2 =>
              Cardinality(DOMAIN cubies) =
                  size * size * size - (size - 2) * (size - 2) * (size - 2)

\* reset() was called on a cube of size 3 whose pieces turns had moved: the
\* 26 pieces are back, none at the centre.
C32_Witness ==
    /\ lastOp.op = "reset"
    /\ size = 3
    /\ ~lastOp.solvedBefore
    /\ Cardinality(DOMAIN cubies) = 26
    /\ <<1, 1, 1>> \notin {GridTriple(t) : t \in DOMAIN cubies}

====
